---------------------------- MODULE Spec2Model ----------------------------
(***************************************************************************)
(* A model of the combine-based JSON parser of json/combine/src/main.rs.   *)
(*                                                                         *)
(* A character is a one-character string; an input is a sequence of        *)
(* characters; a stream position is the 1-based index of the next          *)
(* character to read.  Every parser is an operator from (input, position)  *)
(* to a result record                                                      *)
(*    [st, val, pos, epos]                                                 *)
(* whose st is one of the four outcomes of combine's ConsumedResult        *)
(* (ConsumedOk, EmptyOk, ConsumedErr, EmptyErr), whose pos is the position *)
(* at which the parser leaves the stream (a primitive that rejects the     *)
(* item it has read leaves the stream one item further and reports         *)
(* EmptyErr; the enclosing choice / optional / many / sep_by restores its  *)
(* checkpoint), and whose epos is the position the error carries.          *)
(*                                                                         *)
(* f64 values are modelled as exact decimals m * 10^e (normalised), so     *)
(* binary rounding is abstracted; -0.0 and 0.0 are the same decimal, as    *)
(* they are equal under f64's PartialEq and under the test x >= 0.0.       *)
(* The inputs are short enough that the i64 fold of integer() never        *)
(* overflows.                                                              *)
(***************************************************************************)
EXTENDS Integers, Sequences, FiniteSets, TLC

\* ------------------------------------------------------------------------
\* Bounds of the model
\* ------------------------------------------------------------------------
MaxNumPieces == 4
MaxStrPieces == 4
MaxMixPieces == 3
MaxItems == 2
MaxElems == 2
MaxWs == 1
MaxTail == 2

\* ------------------------------------------------------------------------
\* Characters
\* ------------------------------------------------------------------------
Quote == "\""
BackSlash == "\\"
\* U+0008 has no escape in a TLA+ string: it is named.
BackSpace == "<BS>"
FormFeed == "\f"
LineFeed == "\n"
CarriageReturn == "\r"
Tab == "\t"

WhiteSpace == {" ", Tab, LineFeed}

Digit == {"0", "1", "2", "3", "4", "5", "6", "7", "8", "9"}

DigitVal(c) ==
  CASE c = "0" -> 0 [] c = "1" -> 1 [] c = "2" -> 2 [] c = "3" -> 3
    [] c = "4" -> 4 [] c = "5" -> 5 [] c = "6" -> 6 [] c = "7" -> 7
    [] c = "8" -> 8 [] c = "9" -> 9

\* ------------------------------------------------------------------------
\* Value
\* ------------------------------------------------------------------------
RECURSIVE Pow10(_)
Pow10(n) == IF n <= 0 THEN 1 ELSE 10 * Pow10(n - 1)

RECURSIVE Norm(_, _)
Norm(m, e) ==
  IF m = 0 THEN [m |-> 0, e |-> 0]
  ELSE IF m % 10 = 0 THEN Norm(m \div 10, e + 1)
  ELSE [m |-> m, e |-> e]

Min(a, b) == IF a <= b THEN a ELSE b

\* a + b on decimals
DecAdd(a, b) ==
  LET e == Min(a.e, b.e)
  IN  Norm(a.m * Pow10(a.e - e) + b.m * Pow10(b.e - e), e)

DecNeg(a) == [m |-> 0 - a.m, e |-> a.e]

\* a * 10^k
DecScale(a, k) == Norm(a.m, a.e + k)

DecOfInt(n) == Norm(n, 0)

NumberV(d) == [t |-> "Number", m |-> d.m, e |-> d.e]
StringV(s) == [t |-> "String", s |-> s]
BoolV(b) == [t |-> "Bool", b |-> b]
NullV == [t |-> "Null"]
ObjectV(o) == [t |-> "Object", o |-> o]
ArrayV(a) == [t |-> "Array", a |-> a]

NoValue == [t |-> "NoValue"]

\* ------------------------------------------------------------------------
\* Parse results
\* ------------------------------------------------------------------------
Ok(consumed, v, p) ==
  [st |-> IF consumed THEN "ConsumedOk" ELSE "EmptyOk",
   val |-> v, pos |-> p, epos |-> 0]

Err(consumed, p, e) ==
  [st |-> IF consumed THEN "ConsumedErr" ELSE "EmptyErr",
   val |-> NoValue, pos |-> p, epos |-> e]

IsOk(r) == r.st \in {"ConsumedOk", "EmptyOk"}

Consumed(r) == r.st \in {"ConsumedOk", "ConsumedErr"}

\* p.map(f): the value of a success replaced
Map(r, v) == IF IsOk(r) THEN [r EXCEPT !.val = v] ELSE r

\* Sequencing (and / with / skip / between / tuples): r2 is the result of the
\* second parser started where the first left the stream.  The sequence has
\* consumed when either part has.
Chain(r1, r2) ==
  IF ~IsOk(r1) THEN r1
  ELSE IF IsOk(r2)
       THEN Ok(Consumed(r1) \/ Consumed(r2), <<r1.val, r2.val>>, r2.pos)
       ELSE Err(Consumed(r1) \/ Consumed(r2), r2.pos, r2.epos)

\* A failure after a part of a sequence has consumed is a consumed failure
Committed(r) == IF IsOk(r) THEN r ELSE Err(TRUE, r.pos, r.epos)

\* (a variant of Reset that restores nothing, for comparison)
ResetNone(before, r) == r.pos

\* The checkpoint restored after a parser failed without consuming
Reset(before, r) == before

None == <<>>
Some(v) == <<v>>

\* optional(p): r is p's result from position before
Optional(before, r) ==
  IF IsOk(r) THEN Map(r, Some(r.val))
  ELSE IF r.st = "EmptyErr" THEN Ok(FALSE, None, Reset(before, r))
  ELSE r

\* ------------------------------------------------------------------------
\* Primitive parsers
\* ------------------------------------------------------------------------
\* satisfy(pred) with pred the membership in S: the item is taken from the
\* stream before it is tested.
Satisfy(s, p, S) ==
  IF p > Len(s) THEN Err(FALSE, p, p)
  ELSE IF s[p] \in S THEN Ok(TRUE, s[p], p + 1)
  ELSE Err(FALSE, p + 1, p)

Char(s, p, c) == Satisfy(s, p, {c})

AnyItem(s, p) ==
  IF p > Len(s) THEN Err(FALSE, p, p) ELSE Ok(TRUE, s[p], p + 1)

\* string(w): fails empty on a first-character mismatch, after consuming on
\* a later one
RECURSIVE TokensFrom(_, _, _, _)
TokensFrom(s, p, w, i) ==
  IF i > Len(w) THEN Ok(TRUE, w, p + Len(w))
  ELSE IF p + i - 1 > Len(s) THEN Err(i > 1, p + i - 1, p)
  ELSE IF s[p + i - 1] # w[i] THEN Err(i > 1, p + i, p)
  ELSE TokensFrom(s, p, w, i + 1)

StringP(s, p, w) == TokensFrom(s, p, w, 1)

\* the end of the longest run of characters of S from p
RECURSIVE RunEnd(_, _, _)
RunEnd(s, p, S) ==
  IF p <= Len(s) /\ s[p] \in S THEN RunEnd(s, p + 1, S) ELSE p

\* a run from p to q, collected
RunTo(s, p, q) == Ok(q > p, SubSeq(s, p, q - 1), q)

\* spaces(): never fails
\* (a variant that skips ' ' only, for comparison)
SpacesOnlyBlank(s, p) == RunTo(s, p, RunEnd(s, p, {" "}))

Spaces(s, p) == RunTo(s, p, RunEnd(s, p, WhiteSpace))

\* lex(p) = p.skip(spaces()): r is p's result
Skip(r, sp) == Ok(Consumed(r) \/ Consumed(sp), r.val, sp.pos)

\* (a variant that skips nothing, for comparison)
LexNoSkip(s, r) == r

lex(s, r) == IF IsOk(r) THEN Skip(r, Spaces(s, r.pos)) ELSE r

\* many1(digit()) and many(digit())
Many1Digit(s, p) ==
  IF p <= Len(s) /\ s[p] \in Digit THEN RunTo(s, p, RunEnd(s, p, Digit))
  ELSE Satisfy(s, p, Digit)

ManyDigit(s, p) == RunTo(s, p, RunEnd(s, p, Digit))

\* ------------------------------------------------------------------------
\* integer, number
\* ------------------------------------------------------------------------
\* n = n * 10 + (c - '0') over the digits, left to right
RECURSIVE IntFold(_, _)
IntFold(digits, n) ==
  IF digits = <<>> THEN n
  ELSE IntFold(Tail(digits), n * 10 + DigitVal(Head(digits)))

IntegerOf(ds) == IF IsOk(ds) THEN Map(ds, IntFold(ds.val, 0)) ELSE ds

integer(s, p) == IntegerOf(lex(s, Many1Digit(s, p)))

\* char('0').map(|_| 0.0).or(integer().map(|x| x as f64))
IntPartOr(s, p, zero) ==
  IF IsOk(zero) THEN Map(zero, 0) ELSE integer(s, Reset(p, zero))

IntPart(s, p) == IntPartOr(s, p, Char(s, p, "0"))

\* many(digit()).map(fold): the sum of d_k * 10^-k
FractionOf(ds) == Map(ds, Norm(IntFold(ds.val, 0), 0 - Len(ds.val)))

Fractional(s, p) == FractionOf(ManyDigit(s, p))

\* satisfy(|c| c == 'e' || c == 'E').with(optional(char('-')).and(integer()))
ExpOf(sign, n) ==
  IF ~IsOk(n) THEN Committed(n)
  ELSE IF sign.val # None THEN Ok(TRUE, 0 - n.val, n.pos)
  ELSE Ok(TRUE, n.val, n.pos)

ExpInt(s, sign) == ExpOf(sign, integer(s, sign.pos))

ExpSign(s, e) ==
  IF IsOk(e) THEN ExpInt(s, Optional(e.pos, Char(s, e.pos, "-"))) ELSE e

Exp(s, p) == ExpSign(s, Satisfy(s, p, {"e", "E"}))

\* .map(|(sign, n)| if sign.is_some() { -n } else { n })
Signed(sign, n) == IF sign # None THEN DecNeg(DecOfInt(n)) ELSE DecOfInt(n)

\* .map(|(x, y)| if x >= 0.0 { x + y } else { x - y })
AddFraction(x, y) == IF x.m >= 0 THEN DecAdd(x, y) ELSE DecAdd(x, DecNeg(y))

\* .map(|(n, exp_option)| match exp_option { Some(..) => n * 10^e, None => n })
ApplyExp(n, exp_option) ==
  IF exp_option # None THEN DecScale(n, exp_option[1]) ELSE n

\* lex(optional(char('-')).and(i).map(..)
\*       .and(optional(char('.')).with(fractional)).map(..)
\*       .and(optional(exp)).map(..))
\* one step of the sequence per operator; x is the value so far
NumberEnd(s, x, ex) ==
  IF IsOk(ex) THEN lex(s, Ok(TRUE, ApplyExp(x, ex.val), ex.pos)) ELSE ex

NumberExp(s, x, frac) ==
  NumberEnd(s, AddFraction(x, frac.val), Optional(frac.pos, Exp(s, frac.pos)))

NumberFrac(s, x, dot) == NumberExp(s, x, Fractional(s, dot.pos))

NumberDot(s, sign, i) ==
  IF IsOk(i)
  THEN NumberFrac(s, Signed(sign.val, i.val), Optional(i.pos, Char(s, i.pos, ".")))
  ELSE Chain(sign, i)

NumberInt(s, sign) == NumberDot(s, sign, IntPart(s, sign.pos))

number(s, p) == NumberInt(s, Optional(p, Char(s, p, "-")))

\* ------------------------------------------------------------------------
\* json_char, json_string
\* ------------------------------------------------------------------------
EscapeChars == {Quote, BackSlash, "/", "b", "f", "n", "r", "t"}

\* the match of back_slash_char
\* (a variant that keeps the escaped character, for comparison)
UnescapeIdentity(c) == c

Unescape(c) ==
  CASE c = Quote -> Quote
    [] c = BackSlash -> BackSlash
    [] c = "/" -> "/"
    [] c = "b" -> BackSpace
    [] c = "f" -> FormFeed
    [] c = "n" -> LineFeed
    [] c = "r" -> CarriageReturn
    [] c = "t" -> Tab

\* satisfy_map(|c| Some(match c { ... _ => return None }))
BackSlashCharOf(r) == IF IsOk(r) THEN Map(r, Unescape(r.val)) ELSE r

BackSlashChar(s, p) == BackSlashCharOf(Satisfy(s, p, EscapeChars))

\* the match on the character any() has taken
JsonCharOf(s, a) ==
  IF ~IsOk(a) THEN a
  ELSE IF a.val = BackSlash THEN Committed(BackSlashChar(s, a.pos))
  ELSE IF a.val = Quote THEN Err(FALSE, a.pos, a.pos)
  ELSE a

json_char(s, p) == JsonCharOf(s, AnyItem(s, p))

\* many(json_char()): acc is the String collected so far, start the position
\* of the first iteration, r the result of the iteration from p
RECURSIVE ManyJsonChar(_, _, _, _)
RECURSIVE ManyJsonCharStep(_, _, _, _, _)
ManyJsonCharStep(s, start, p, acc, r) ==
  IF IsOk(r) THEN ManyJsonChar(s, start, r.pos, Append(acc, r.val))
  ELSE IF r.st = "EmptyErr" THEN Ok(p > start, acc, Reset(p, r))
  ELSE r

ManyJsonChar(s, start, p, acc) ==
  ManyJsonCharStep(s, start, p, acc, json_char(s, p))

\* between(char('"'), lex(char('"')), many(json_char()))
JsonStringEnd(body, close) ==
  IF IsOk(close) THEN Ok(TRUE, body.val, close.pos) ELSE Committed(close)

JsonStringClose(s, body) ==
  IF IsOk(body) THEN JsonStringEnd(body, lex(s, Char(s, body.pos, Quote)))
  ELSE Committed(body)

JsonStringBody(s, open) ==
  IF IsOk(open) THEN JsonStringClose(s, ManyJsonChar(s, open.pos, open.pos, <<>>))
  ELSE open

json_string(s, p) == JsonStringBody(s, Char(s, p, Quote))

\* ------------------------------------------------------------------------
\* object, array, json_value_
\* ------------------------------------------------------------------------
\* HashMap::insert
\* (a variant that keeps the first value of a key, for comparison)
InsertKeepFirst(m, k, v) ==
  [x \in DOMAIN m \cup {k} |-> IF x \in DOMAIN m THEN m[x] ELSE v]

Insert(m, k, v) ==
  [x \in DOMAIN m \cup {k} |-> IF x = k THEN v ELSE m[x]]

EmptyMap == <<>>

\* Extend for HashMap: the pairs inserted in order
RECURSIVE Collect(_, _)
Collect(pairs, m) ==
  IF pairs = <<>> THEN m
  ELSE Collect(Tail(pairs), Insert(m, Head(pairs)[1], Head(pairs)[2]))

\* the order of the alternatives of choice((...))
Alternatives == <<"string", "object", "array", "number", "false", "true", "null">>

NumAlternatives == Len(Alternatives)

RECURSIVE json_value_(_, _)
RECURSIVE Alt(_, _, _)
RECURSIVE ChoiceFrom(_, _, _, _)
RECURSIVE ChoiceOn(_, _, _, _)
RECURSIVE field(_, _)
RECURSIVE FieldColon(_, _)
RECURSIVE FieldValue(_, _, _)
RECURSIVE Item(_, _, _)
RECURSIVE SepByRest(_, _, _, _)
RECURSIVE SepByItem(_, _, _, _)
RECURSIVE SepBySep(_, _, _, _, _)
RECURSIVE SepByFirst(_, _, _, _)
RECURSIVE SepBy(_, _, _)
RECURSIVE Between(_, _, _, _, _)
RECURSIVE BetweenItems(_, _, _, _)
RECURSIVE BetweenClose(_, _, _)
RECURSIVE object(_, _)
RECURSIVE array(_, _)

\* (json_string(), lex(char(':')), json_value_()).map(|t| (t.0, t.2))
FieldOf(k, v) ==
  IF IsOk(v) THEN Ok(TRUE, <<k.val, v.val>>, v.pos) ELSE Committed(v)

FieldValue(s, k, colon) ==
  IF IsOk(colon) THEN FieldOf(k, json_value_(s, colon.pos))
  ELSE Committed(colon)

FieldColon(s, k) ==
  IF IsOk(k) THEN FieldValue(s, k, lex(s, Char(s, k.pos, ":"))) ELSE k

field(s, p) == FieldColon(s, json_string(s, p))

\* the item parser of a sep_by: a field of an object, an element of an array
Item(kind, s, p) == IF kind = "field" THEN field(s, p) ELSE json_value_(s, p)

\* the iterations of separator.with(parser) after the first item; acc is the
\* collection so far
SepByItem(kind, s, acc, it) ==
  IF IsOk(it) THEN SepByRest(kind, s, it.pos, Append(acc, it.val))
  ELSE Committed(it)

SepBySep(kind, s, p, acc, sep) ==
  IF IsOk(sep) THEN SepByItem(kind, s, acc, Item(kind, s, sep.pos))
  ELSE Ok(TRUE, acc, Reset(p, sep))

SepByRest(kind, s, p, acc) == SepBySep(kind, s, p, acc, lex(s, Char(s, p, ",")))

\* sep_by(parser, lex(char(','))): no item is an empty collection
SepByFirst(kind, s, p, first) ==
  IF IsOk(first) THEN SepByRest(kind, s, first.pos, <<first.val>>)
  ELSE IF first.st = "EmptyErr" THEN Ok(FALSE, <<>>, Reset(p, first))
  ELSE first

SepBy(kind, s, p) == SepByFirst(kind, s, p, Item(kind, s, p))

\* between(lex(char(open)), lex(char(close)), sep_by(item, lex(char(','))))
BetweenEnd(items, close) ==
  IF IsOk(close) THEN Ok(TRUE, items.val, close.pos) ELSE Committed(close)

BetweenClose(s, closeCh, items) ==
  IF IsOk(items) THEN BetweenEnd(items, lex(s, Char(s, items.pos, closeCh)))
  ELSE Committed(items)

BetweenItems(kind, s, closeCh, open) ==
  IF IsOk(open) THEN BetweenClose(s, closeCh, SepBy(kind, s, open.pos))
  ELSE open

Between(kind, s, p, openCh, closeCh) ==
  BetweenItems(kind, s, closeCh, lex(s, Char(s, p, openCh)))

\* .map(Value::Object): the fields collected into a HashMap
ObjectOf(r) == IF IsOk(r) THEN Map(r, ObjectV(Collect(r.val, EmptyMap))) ELSE r

object(s, p) == ObjectOf(Between("field", s, p, "{", "}"))

\* .map(Value::Array)
ArrayOf(r) == IF IsOk(r) THEN Map(r, ArrayV(r.val)) ELSE r

array(s, p) == ArrayOf(Between("element", s, p, "[", "]"))

StringOf(r) == IF IsOk(r) THEN Map(r, StringV(r.val)) ELSE r

NumberOf(r) == IF IsOk(r) THEN Map(r, NumberV(r.val)) ELSE r

\* the k-th alternative of the choice
Alt(k, s, p) ==
  CASE k = 1 -> StringOf(json_string(s, p))
    [] k = 2 -> object(s, p)
    [] k = 3 -> array(s, p)
    [] k = 4 -> NumberOf(number(s, p))
    [] k = 5 -> lex(s, Map(StringP(s, p, <<"f", "a", "l", "s", "e">>), BoolV(FALSE)))
    [] k = 6 -> lex(s, Map(StringP(s, p, <<"t", "r", "u", "e">>), BoolV(TRUE)))
    [] k = 7 -> lex(s, Map(StringP(s, p, <<"n", "u", "l", "l">>), NullV))

\* choice: the alternatives from the k-th on; before is the checkpoint, r the
\* result of the k-th alternative
ChoiceOn(k, s, before, r) ==
  IF r.st = "EmptyErr" THEN ChoiceFrom(k + 1, s, before, Reset(before, r))
  ELSE r

ChoiceFrom(k, s, before, p) ==
  IF k > NumAlternatives THEN Err(FALSE, before, before)
  ELSE ChoiceOn(k, s, before, Alt(k, s, p))

json_value_(s, p) == ChoiceFrom(1, s, p, p)

\* spaces().with(json_value_())
WithValue(sp, v) ==
  IF IsOk(v) THEN Ok(Consumed(sp) \/ Consumed(v), v.val, v.pos)
  ELSE Err(Consumed(sp) \/ Consumed(v), v.pos, v.epos)

JsonValueAfter(s, sp) == WithValue(sp, json_value_(s, sp.pos))

json_value(s, p) == JsonValueAfter(s, Spaces(s, p))

\* the unconsumed remainder
Remainder(s, p) == SubSeq(s, p, Len(s))

\* ------------------------------------------------------------------------
\* Inputs: fixtures
\* ------------------------------------------------------------------------
\* the input of json_test
FixtureJsonTest ==
  <<"{", LineFeed, " ", " ", " ", " ", Quote, "a", "r", "r", "a", "y",
    Quote, ":", " ", "[", "1", ",", " ", Quote, Quote, "]", ",", LineFeed,
    " ", " ", " ", " ", Quote, "o", "b", "j", "e", "c", "t", Quote, ":",
    " ", "{", "}", ",", LineFeed, " ", " ", " ", " ", Quote, "n", "u", "m",
    "b", "e", "r", Quote, ":", " ", "3", ".", "1", "4", ",", LineFeed, " ",
    " ", " ", " ", Quote, "s", "m", "a", "l", "l", "_", "n", "u", "m", "b",
    "e", "r", Quote, ":", " ", "0", ".", "5", "9", ",", LineFeed, " ", " ",
    " ", " ", Quote, "i", "n", "t", Quote, ":", " ", "-", "1", "0", "0",
    ",", LineFeed, " ", " ", " ", " ", Quote, "e", "x", "p", Quote, ":",
    " ", "-", "1", "e", "2", ",", LineFeed, " ", " ", " ", " ", Quote, "e",
    "x", "p", "_", "n", "e", "g", Quote, ":", " ", "2", "3", "e", "-", "2",
    ",", LineFeed, " ", " ", " ", " ", Quote, "t", "r", "u", "e", Quote,
    ":", " ", "t", "r", "u", "e", ",", LineFeed, " ", " ", " ", " ", Quote,
    "f", "a", "l", "s", "e", Quote, " ", " ", ":", " ", "f", "a", "l", "s",
    "e", ",", LineFeed, " ", " ", " ", " ", Quote, "n", "u", "l", "l",
    Quote, " ", ":", " ", "n", "u", "l", "l", LineFeed, "}">>

\* the data of test() and of the basic benchmark
FixtureBasic ==
  <<" ", " ", "{", " ", Quote, "a", Quote, Tab, ":", " ", "4", "2", ",",
    LineFeed, " ", " ", Quote, "b", Quote, ":", " ", "[", " ", Quote, "x",
    Quote, ",", " ", Quote, "y", Quote, ",", " ", "1", "2", " ", "]", " ",
    ",", LineFeed, " ", " ", Quote, "c", Quote, ":", " ", "{", " ", Quote,
    "h", "e", "l", "l", "o", Quote, " ", ":", " ", Quote, "w", "o", "r",
    "l", "d", Quote, LineFeed, " ", " ", "}", LineFeed, " ", " ", "}", " ",
    " ">>

\* 42 trailing
FixtureTrailing ==
  <<"4", "2", " ", "t", "r", "a", "i", "l", "i", "n", "g">>

\* {"a": }
FixtureLocality ==
  <<"{", Quote, "a", Quote, ":", " ", "}">>

\* {"a":1,"a":2}
FixtureDuplicate ==
  <<"{", Quote, "a", Quote, ":", "1", ",", Quote, "a", Quote, ":", "2", "}">>

\* {"a":[1,""]}
FixtureNesting ==
  <<"{", Quote, "a", Quote, ":", "[", "1", ",", Quote, Quote, "]", "}">>

\* a string of the escapes \n \t \" \\
FixtureEscapes ==
  <<Quote, BackSlash, "n", BackSlash, "t", BackSlash, Quote, BackSlash,
    BackSlash, Quote>>

\* a string of the eight escapes, then trailing text
FixtureAllEscapes ==
  <<Quote, BackSlash, Quote, BackSlash, BackSlash, BackSlash, "/",
    BackSlash, "b", BackSlash, "f", BackSlash, "n", BackSlash, "r",
    BackSlash, "t", Quote, " ", "x">>

\* a string with a \u escape
FixtureUnicodeEscape ==
  <<Quote, BackSlash, "u", "0", "0", "4", "1", Quote>>

\* -1e2
FixtureExp ==
  <<"-", "1", "e", "2">>

\* 23e-2
FixtureExpNeg ==
  <<"2", "3", "e", "-", "2">>

\* 0.59
FixtureSmall ==
  <<"0", ".", "5", "9">>

\* -0.59
FixtureNegSmall ==
  <<"-", "0", ".", "5", "9">>

\* -100
FixtureInt ==
  <<"-", "1", "0", "0">>

Fixtures ==
  {FixtureJsonTest, FixtureBasic, FixtureTrailing, FixtureLocality,
   FixtureDuplicate, FixtureNesting, FixtureEscapes, FixtureAllEscapes,
   FixtureUnicodeEscape, FixtureExp, FixtureExpNeg, FixtureSmall,
   FixtureNegSmall, FixtureInt}

\* ------------------------------------------------------------------------
\* Inputs: every concatenation of a few pieces
\* ------------------------------------------------------------------------
RECURSIVE Flatten(_)
Flatten(ss) == IF ss = <<>> THEN <<>> ELSE Head(ss) \o Flatten(Tail(ss))

\* the sequences over S of length at most n
RECURSIVE SeqUpTo(_, _)
SeqUpTo(S, n) ==
  IF n = 0 THEN {<<>>}
  ELSE LET shorter == SeqUpTo(S, n - 1)
       IN  shorter \cup {Append(q, x) : q \in shorter, x \in S}

NumPieces == {<<"-">>, <<"0">>, <<"1">>, <<".">>, <<"e">>, <<" ">>, <<"x">>}

StrPieces == {<<Quote>>, <<BackSlash>>, <<"n">>, <<"u">>, <<"a">>, <<" ">>, <<"/">>}

MixPieces ==
  {<<"{">>, <<"}">>, <<"[">>, <<"]">>, <<",">>, <<Quote>>, <<"1">>, <<"-">>,
   <<" ">>, <<"f">>, <<"t">>, <<"n">>,
   <<"f", "a", "l", "s", "e">>, <<"t", "r", "u", "e">>, <<"n", "u", "l", "l">>}

NumInputs == {Flatten(q) : q \in SeqUpTo(NumPieces, MaxNumPieces)}

StrInputs == {<<Quote>> \o Flatten(q) : q \in SeqUpTo(StrPieces, MaxStrPieces)}

MixInputs == {Flatten(q) : q \in SeqUpTo(MixPieces, MaxMixPieces)}

RawInputs == Fixtures \cup NumInputs \cup StrInputs \cup MixInputs

\* ------------------------------------------------------------------------
\* Inputs: well-formed documents, as trees
\* ------------------------------------------------------------------------
\* exp is <<>> or <<'e' or 'E', negative, digits>>; frac is <<>> for none
NumDoc(neg, int, frac, exp) ==
  [k |-> "num", neg |-> neg, int |-> int, frac |-> frac, exp |-> exp]

\* items are the characters between the quotes as written: <<c>>, or
\* <<BackSlash, c>> for an escape
StrDoc(items) == [k |-> "str", items |-> items]

LitDoc(w) == [k |-> "lit", w |-> w]

ArrDoc(elems) == [k |-> "arr", elems |-> elems]

\* fields are pairs <<key, value>>, the key a StrDoc
ObjDoc(fields) == [k |-> "obj", fields |-> fields]

ExpText(x) ==
  IF x = <<>> THEN <<>>
  ELSE <<x[1]>> \o (IF x[2] THEN <<"-">> ELSE <<>>) \o x[3]

NumText(d) ==
  (IF d.neg THEN <<"-">> ELSE <<>>) \o d.int
    \o (IF d.frac = <<>> THEN <<>> ELSE <<".">> \o d.frac) \o ExpText(d.exp)

StrText(d) == <<Quote>> \o Flatten(d.items) \o <<Quote>>

LitText(d) ==
  CASE d.w = "true" -> <<"t", "r", "u", "e">>
    [] d.w = "false" -> <<"f", "a", "l", "s", "e">>
    [] d.w = "null" -> <<"n", "u", "l", "l">>

\* the tokens of a document, in order
RECURSIVE Tokens(_)
RECURSIVE ElemTokens(_)
RECURSIVE FieldTokens(_)
ElemTokens(elems) ==
  IF elems = <<>> THEN <<>>
  ELSE Tokens(Head(elems))
         \o (IF Len(elems) > 1 THEN <<<<",">>>> ELSE <<>>)
         \o ElemTokens(Tail(elems))

FieldTokens(fields) ==
  IF fields = <<>> THEN <<>>
  ELSE <<StrText(Head(fields)[1]), <<":">>>> \o Tokens(Head(fields)[2])
         \o (IF Len(fields) > 1 THEN <<<<",">>>> ELSE <<>>)
         \o FieldTokens(Tail(fields))

Tokens(d) ==
  CASE d.k = "num" -> <<NumText(d)>>
    [] d.k = "str" -> <<StrText(d)>>
    [] d.k = "lit" -> <<LitText(d)>>
    [] d.k = "arr" -> <<<<"[">>>> \o ElemTokens(d.elems) \o <<<<"]">>>>
    [] d.k = "obj" -> <<<<"{">>>> \o FieldTokens(d.fields) \o <<<<"}">>>>

\* the text of a document without any whitespace
Text(d) == Flatten(Tokens(d))

\* the tokens with ws[i] before the i-th token and ws[n + 1] after the last
RECURSIVE Interleave(_, _)
Interleave(toks, ws) ==
  IF toks = <<>> THEN Head(ws)
  ELSE Head(ws) \o Head(toks) \o Interleave(Tail(toks), Tail(ws))

\* the Value a document denotes
EscapeMeaning(c) ==
  CASE c = "n" -> LineFeed
    [] c = "t" -> Tab
    [] c = "r" -> CarriageReturn
    [] c = "f" -> FormFeed
    [] c = "b" -> BackSpace
    [] OTHER -> c

ItemMeaning(it) == IF Len(it) = 2 THEN EscapeMeaning(it[2]) ELSE it[1]

StrMeaning(d) == [i \in 1..Len(d.items) |-> ItemMeaning(d.items[i])]

ExpMeaning(x) ==
  IF x = <<>> THEN 0
  ELSE IF x[2] THEN 0 - IntFold(x[3], 0)
  ELSE IntFold(x[3], 0)

\* sign * (int.frac) * 10^exp
NumMeaning(d) ==
  Norm((IF d.neg THEN 0 - 1 ELSE 1) * IntFold(d.int \o d.frac, 0),
       ExpMeaning(d.exp) - Len(d.frac))

\* the index of the last field with key k
LastIndex(fields, k) ==
  CHOOSE i \in 1..Len(fields) :
    /\ fields[i][1] = k
    /\ \A j \in (i + 1)..Len(fields) : fields[j][1] # k

KeysOf(fields) == {fields[i][1] : i \in 1..Len(fields)}

RECURSIVE Denote(_)
Denote(d) ==
  CASE d.k = "num" -> NumberV(NumMeaning(d))
    [] d.k = "str" -> StringV(StrMeaning(d))
    [] d.k = "lit" -> IF d.w = "null" THEN NullV ELSE BoolV(d.w = "true")
    [] d.k = "arr" -> ArrayV([i \in 1..Len(d.elems) |-> Denote(d.elems[i])])
    [] d.k = "obj" ->
         ObjectV([key \in {StrMeaning(k) : k \in KeysOf(d.fields)} |->
                    Denote(d.fields[CHOOSE i \in 1..Len(d.fields) :
                      /\ StrMeaning(d.fields[i][1]) = key
                      /\ \A j \in (i + 1)..Len(d.fields) :
                           StrMeaning(d.fields[j][1]) # key][2])])

IntTexts == {<<"0">>, <<"1">>, <<"1", "0", "0">>}

FracTexts == {<<>>, <<"5">>, <<"5", "9">>}

ExpDocs == {<<>>, <<"e", FALSE, <<"2">>>>, <<"E", TRUE, <<"2">>>>}

NumDocs ==
  {NumDoc(neg, int, frac, exp) :
     neg \in BOOLEAN, int \in IntTexts, frac \in FracTexts, exp \in ExpDocs}

StrItems ==
  {<<"a">>, <<" ">>, <<BackSlash, "n">>, <<BackSlash, Quote>>,
   <<BackSlash, BackSlash>>}

StrDocs == {StrDoc(items) : items \in SeqUpTo(StrItems, MaxItems)}

LitDocs == {LitDoc("true"), LitDoc("false"), LitDoc("null")}

One == NumDoc(FALSE, <<"1">>, <<>>, <<>>)

Two == NumDoc(FALSE, <<"2">>, <<>>, <<>>)

KeyA == StrDoc(<<<<"a">>>>)

KeyB == StrDoc(<<<<"b">>>>)

\* the values nested in the arrays
Inner == {One, KeyA, ArrDoc(<<>>)}

ArrDocs == {ArrDoc(elems) : elems \in SeqUpTo(Inner, MaxElems)}

\* the fields of the objects: a key with two values, and another key
Fields == {<<KeyA, One>>, <<KeyA, Two>>, <<KeyB, One>>}

ObjDocs == {ObjDoc(fields) : fields \in SeqUpTo(Fields, MaxElems)}

\* {"a":[1,""]} of the nesting example, and an array of an object and an array
DeepDocs ==
  {ObjDoc(<<<<KeyA, ArrDoc(<<One, StrDoc(<<>>)>>)>>>>),
   ArrDoc(<<ObjDoc(<<<<KeyB, LitDoc("null")>>>>), ArrDoc(<<LitDoc("true")>>)>>)}

Docs == NumDocs \cup StrDocs \cup LitDocs \cup ArrDocs \cup ObjDocs \cup DeepDocs

\* the characters of the whitespace inserted and of the trailing text
WsChars == {" ", Tab, LineFeed}

TailFirst == {" ", "x"}

TailChars == {" ", "1", ".", "e", "x"}

\* ------------------------------------------------------------------------
\* The parse of one input, one alternative of the choice at a time
\* ------------------------------------------------------------------------
VARIABLES
  input,    \* the characters given to easy_parse
  origin,   \* how the input was made
  pc,       \* "edit", "spaces", "choice", "done", "failed"
  pos,      \* the position of the stream
  before,   \* the checkpoint of the choice
  alt,      \* the next alternative of the choice
  tried,    \* the alternatives tried: [alt, start, st]
  res,      \* the Value of a successful parse
  err       \* the position of the error of a failed parse

vars == <<input, origin, pc, pos, before, alt, tried, res, err>>

Raw == [kind |-> "raw"]

Init ==
  /\ input \in RawInputs
  /\ origin = Raw
  /\ pc = "spaces"
  /\ pos = 1
  /\ before = 1
  /\ alt = 1
  /\ tried = <<>>
  /\ res = NoValue
  /\ err = 0

\* spaces().with(...) of json_value
SkipSpaces ==
  /\ pc = "spaces"
  /\ pos' = Spaces(input, pos).pos
  /\ before' = pos'
  /\ pc' = "choice"
  /\ alt' = 1
  /\ UNCHANGED <<input, origin, tried, res, err>>

\* what the choice does with the result r of its k-th alternative
\* (a variant that goes on after any failure, for comparison)
ChoiceRetry(r) == r.st \in {"EmptyErr", "ConsumedErr"}

ChoiceNext(r) == r.st = "EmptyErr"

ChoiceStep(k, r) ==
  /\ pc = "choice"
  /\ alt = k
  /\ tried' = Append(tried, [alt |-> k, start |-> pos, st |-> r.st])
  /\ IF IsOk(r)
     THEN /\ pc' = "done"
          /\ res' = r.val
          /\ pos' = r.pos
          /\ UNCHANGED <<alt, err>>
     ELSE IF ChoiceNext(r) /\ k < NumAlternatives
     THEN /\ pos' = Reset(before, r)
          /\ alt' = k + 1
          /\ UNCHANGED <<pc, res, err>>
     ELSE /\ pc' = "failed"
          /\ err' = r.epos
          /\ pos' = r.pos
          /\ UNCHANGED <<alt, res>>
  /\ UNCHANGED <<input, origin, before>>

TryString == ChoiceStep(1, Alt(1, input, pos))

TryObject == ChoiceStep(2, Alt(2, input, pos))

TryArray == ChoiceStep(3, Alt(3, input, pos))

TryNumber == ChoiceStep(4, Alt(4, input, pos))

TryFalse == ChoiceStep(5, Alt(5, input, pos))

TryTrue == ChoiceStep(6, Alt(6, input, pos))

TryNull == ChoiceStep(7, Alt(7, input, pos))

Parse ==
  \/ SkipSpaces
  \/ TryString
  \/ TryObject
  \/ TryArray
  \/ TryNumber
  \/ TryFalse
  \/ TryTrue
  \/ TryNull

Next == Parse

Spec == Init /\ [][Next]_vars

\* ------------------------------------------------------------------------
\* The parse of a document, after whitespace is inserted between its tokens
\* or text is put after it
\* ------------------------------------------------------------------------
FromDoc(d, ws, tail) == [kind |-> "doc", doc |-> d, ws |-> ws, tail |-> tail]

InputOf(o) == Interleave(Tokens(o.doc), o.ws) \o o.tail

RECURSIVE SumLen(_)
SumLen(ss) == IF ss = <<>> THEN 0 ELSE Len(Head(ss)) + SumLen(Tail(ss))

InitDoc ==
  /\ \E d \in Docs :
       origin = FromDoc(d, [g \in 1..(Len(Tokens(d)) + 1) |-> <<>>], <<>>)
  /\ input = InputOf(origin)
  /\ pc = "edit"
  /\ pos = 1
  /\ before = 1
  /\ alt = 1
  /\ tried = <<>>
  /\ res = NoValue
  /\ err = 0

\* one whitespace character more before, between or after the tokens
InsertWs ==
  /\ pc = "edit"
  /\ origin.tail = <<>>
  /\ SumLen(origin.ws) < MaxWs
  /\ \E g \in DOMAIN origin.ws, c \in WsChars :
       origin' = [origin EXCEPT !.ws[g] = Append(@, c)]
  /\ input' = InputOf(origin')
  /\ UNCHANGED <<pc, pos, before, alt, tried, res, err>>

\* one character more of trailing text
AppendTail ==
  /\ pc = "edit"
  /\ SumLen(origin.ws) = 0
  /\ Len(origin.tail) < MaxTail
  /\ \E c \in (IF origin.tail = <<>> THEN TailFirst ELSE TailChars) :
       origin' = [origin EXCEPT !.tail = Append(@, c)]
  /\ input' = InputOf(origin')
  /\ UNCHANGED <<pc, pos, before, alt, tried, res, err>>

Begin ==
  /\ pc = "edit"
  /\ pc' = "spaces"
  /\ UNCHANGED <<input, origin, pos, before, alt, tried, res, err>>

NextDoc == InsertWs \/ AppendTail \/ Begin \/ Parse

SpecDoc == InitDoc /\ [][NextDoc]_vars

Done == pc = "done"

Failed == pc = "failed"

Terminal == Done \/ Failed

\* the pair easy_parse returns on success
Result == <<res, Remainder(input, pos)>>

\* the expected value of json_test
JsonTestExpected ==
  LET key(w) == [i \in 1..Len(w) |-> w[i]]
      num(m, e) == NumberV([m |-> m, e |-> e])
  IN  ObjectV(
        (<<"a", "r", "r", "a", "y">> :> ArrayV(<<num(1, 0), StringV(<<>>)>>))
        @@ (<<"o", "b", "j", "e", "c", "t">> :> ObjectV(EmptyMap))
        @@ (<<"n", "u", "m", "b", "e", "r">> :> num(314, 0 - 2))
        @@ (<<"s", "m", "a", "l", "l", "_", "n", "u", "m", "b", "e", "r">>
              :> num(59, 0 - 2))
        @@ (<<"i", "n", "t">> :> num(0 - 1, 2))
        @@ (<<"e", "x", "p">> :> num(0 - 1, 2))
        @@ (<<"e", "x", "p", "_", "n", "e", "g">> :> num(23, 0 - 2))
        @@ (<<"t", "r", "u", "e">> :> BoolV(TRUE))
        @@ (<<"f", "a", "l", "s", "e">> :> BoolV(FALSE))
        @@ (<<"n", "u", "l", "l">> :> NullV))

\* assert_eq!(result, (expected, "")) of json_test
JsonTestPasses ==
  (input = FixtureJsonTest /\ Terminal) => Result = <<JsonTestExpected, <<>>>>

\* ------------------------------------------------------------------------
\* Properties
\* ------------------------------------------------------------------------
IsDoc == origin.kind = "doc"

NoWs == IsDoc /\ SumLen(origin.ws) = 0

NoTail == IsDoc /\ origin.tail = <<>>

\* C1: every well-formed document of the supported grammar, with any
\* whitespace between its tokens, parses to exactly the Value it denotes
\* and leaves an empty remainder.
C1_WellFormedParsesToDenotation ==
  (NoTail /\ Terminal) => (Done /\ Result = <<Denote(origin.doc), <<>>>>)

\* the parse agrees with the parse plain of the document without whitespace
SameAsPlain(plain) ==
  /\ IsOk(plain)
  /\ Done
  /\ res = plain.val
  /\ Remainder(input, pos) = <<>>

FortyTwo == NumberV([m |-> 42, e |-> 0])

\* C3 as stated: "42 trailing" parses to Number(42.0) and the remainder is
\* " trailing", the leading space included.
C3_RemainderKeepsSpace ==
  (input = FixtureTrailing /\ Terminal)
    => (Done /\ Result = <<FortyTwo, SubSeq(FixtureTrailing, 3, 11)>>)

\* C3 amended: "42 trailing" parses to Number(42.0) and the remainder is
\* "trailing": the space after 42 is consumed with the number.
C3_RemainderAfterSpace ==
  (input = FixtureTrailing /\ Terminal)
    => (Done /\ Result = <<FortyTwo, SubSeq(FixtureTrailing, 4, 11)>>)

C3_Witness == input = FixtureTrailing /\ Done

\* the text without its leading whitespace
RECURSIVE StripWs(_)
StripWs(text) ==
  IF text # <<>> /\ Head(text) \in WhiteSpace THEN StripWs(Tail(text)) ELSE text

\* the parse gives the value of the document alone and returns the trailing
\* text (the whitespace that begins the trailing text may be consumed)
ValueThenTail(plain) ==
  /\ Done
  /\ res = plain.val
  /\ Remainder(input, pos) \in {origin.tail, StripWs(origin.tail)}

\* C4: an input made of one complete value and then trailing text is never
\* rejected for what follows the value: the parse succeeds with that value
\* and returns the trailing text as the remainder.
C4_TrailingReturned ==
  (NoWs /\ Terminal) => ValueThenTail(json_value(Text(origin.doc), 1))

\* the value parsed from the text of a field's value alone
FieldValueAlone(fld) == json_value(Text(fld[2]), 1).val

\* C5: an object literal never fails for a duplicate key; the Object has
\* exactly one entry per distinct key, and maps each key to the value of
\* the key's last occurrence.
C5_LastWriteWins ==
  (NoTail /\ Terminal /\ origin.doc.k = "obj")
    => /\ Done
       /\ res.t = "Object"
       /\ DOMAIN res.o = {StrMeaning(k) : k \in KeysOf(origin.doc.fields)}
       /\ \A k \in KeysOf(origin.doc.fields) :
            res.o[StrMeaning(k)]
              = FieldValueAlone(origin.doc.fields[LastIndex(origin.doc.fields, k)])

\* a parse has ended of an object that gives one key two different values
C5_Witness ==
  /\ NoTail
  /\ Done
  /\ origin.doc.k = "obj"
  /\ Len(origin.doc.fields) = 2
  /\ origin.doc.fields[1][1] = origin.doc.fields[2][1]
  /\ origin.doc.fields[1][2] # origin.doc.fields[2][2]

\* the position right after the first ':' of the input
AfterColon == 1 + CHOOSE i \in 1..Len(input) : input[i] = ":"

\* the parse failed in the object alternative, which no later alternative
\* retried
FailedInObject ==
  /\ Failed
  /\ res = NoValue
  /\ Len(tried) = 2
  /\ tried[1].st = "EmptyErr"
  /\ tried[2].alt = 2
  /\ tried[2].st = "ConsumedErr"

\* C6 as stated: {"a": } fails with no Value, in the object alternative with
\* no later alternative tried, and the error position is the position right
\* after the ':'.
C6_ErrorRightAfterColon ==
  (input = FixtureLocality /\ Terminal) => (FailedInObject /\ err = AfterColon)

\* C6 amended: {"a": } fails with no Value, in the object alternative with no
\* later alternative tried, and the error position is that of the '}': the
\* first position after the ':' and the whitespace that follows it.
C6_ErrorAtNextToken ==
  (input = FixtureLocality /\ Terminal)
    => /\ FailedInObject
       /\ err = AfterColon + 1
       /\ input[err] = "}"
       /\ input[AfterColon] \in WhiteSpace

C6_Witness == input = FixtureLocality /\ Failed

\* the end of the integer part of a number at position b: the sign, then a
\* '0' or a run of digits with the whitespace after it
IntPartEnd(s, b) ==
  LET b0 == IF b <= Len(s) /\ s[b] = "-" THEN b + 1 ELSE b
  IN  IF b0 <= Len(s) /\ s[b0] = "0" THEN b0 + 1
      ELSE RunEnd(s, RunEnd(s, b0, Digit), WhiteSpace)

\* C7: digits are read as a fraction only after a '.': when a digit follows
\* the integer part of a number without a '.', the number ends there, and
\* the digit and what follows it are left unconsumed.
C7_DigitsNeedDot ==
  (Done /\ res.t = "Number" /\ IntPartEnd(input, before) <= Len(input)
     /\ input[IntPartEnd(input, before)] \in Digit)
    => pos = IntPartEnd(input, before)

Negated(v) == NumberV(DecNeg([m |-> v.m, e |-> v.e]))

\* the input is '-' and then the number token that unsigned parsed to
NegationOf(unsigned) ==
  (IsOk(unsigned) /\ unsigned.pos = Len(input) /\ unsigned.val.t = "Number")
    => (Done /\ res = Negated(unsigned.val))

\* C8: the value parsed from '-' followed by an unsigned number token (a '0'
\* or a run of digits, then what '.' or an exponent may add, and no
\* whitespace) is the negation of the value parsed from the token.
C8_SignNegates ==
  (/\ Terminal
   /\ Len(input) >= 2
   /\ input[1] = "-"
   /\ input[2] \in Digit
   /\ (input[2] = "0" /\ Len(input) >= 3) => input[3] = "."
   /\ \A i \in 1..Len(input) : input[i] \notin WhiteSpace)
    => NegationOf(json_value(Tail(input), 1))

\* the scan of a string body from i: its characters up to the first
\* unescaped quote, each escape replaced by the character it means
RECURSIVE RefScan(_, _, _)
RefScan(s, i, acc) ==
  IF i > Len(s) THEN [kind |-> "unterminated"]
  ELSE IF s[i] = Quote THEN [kind |-> "closed", str |-> acc, close |-> i]
  ELSE IF s[i] # BackSlash THEN RefScan(s, i + 1, Append(acc, s[i]))
  ELSE IF i + 1 <= Len(s) /\ s[i + 1] \in {Quote, BackSlash, "/", "b", "f", "n", "r", "t"}
       THEN RefScan(s, i + 2, Append(acc, EscapeMeaning(s[i + 1])))
       ELSE [kind |-> "escape"]

\* the parse of an input that begins with a quote, against the scan ref
StringAsScanned(ref) ==
  IF ref.kind = "closed"
  THEN /\ Done
       /\ res = StringV(ref.str)
       /\ Len(tried) = 1
       /\ pos > ref.close
       /\ \A i \in (ref.close + 1)..(pos - 1) : input[i] \in WhiteSpace
       /\ pos <= Len(input) => input[pos] \notin WhiteSpace
  ELSE /\ Failed
       /\ res = NoValue
       /\ Len(tried) = 1
       /\ tried[1].st = "ConsumedErr"

\* C9: for an input that begins with '"', json_string returns the characters
\* up to the first unescaped '"' with every escape replaced; the closing
\* quote is consumed once, by the closing parser (with the whitespace after
\* it); a backslash before any other character fails the whole parse.
C9_StringBody ==
  (input # <<>> /\ input[1] = Quote /\ Terminal)
    => StringAsScanned(RefScan(input, 2, <<>>))

\* the string of the eight escapes is parsed, the text after it left
C9_Witness ==
  /\ input = FixtureAllEscapes
  /\ Done
  /\ Len(res.s) = 8
  /\ Remainder(input, pos) = <<"x">>

\* the characters an alternative can begin with
First(k) ==
  CASE k = 1 -> {Quote}
    [] k = 2 -> {"{"}
    [] k = 3 -> {"["}
    [] k = 4 -> Digit \cup {"-"}
    [] k = 5 -> {"f"}
    [] k = 6 -> {"t"}
    [] k = 7 -> {"n"}

\* the Values an alternative can give
Gives(k, v) ==
  CASE k = 1 -> v.t = "String"
    [] k = 2 -> v.t = "Object"
    [] k = 3 -> v.t = "Array"
    [] k = 4 -> v.t = "Number"
    [] k = 5 -> v = BoolV(FALSE)
    [] k = 6 -> v = BoolV(TRUE)
    [] k = 7 -> v = NullV

BeginsWith(k) == before <= Len(input) /\ input[before] \in First(k)

\* C10: the alternatives are tried in the order string, object, array,
\* number, false, true, null, each from the position at which the dispatcher
\* was entered; the next is tried only after an alternative failed without
\* consuming; a failure after consuming ends the parse; no alternative
\* matched only when all seven failed without consuming.
C10_CommittedChoice ==
  /\ \A i \in 1..Len(tried) :
       /\ tried[i].alt = i
       /\ tried[i].start = before
       /\ i < Len(tried) => tried[i].st = "EmptyErr"
       /\ tried[i].st = "EmptyErr" <=> ~BeginsWith(i)
  /\ pc = "choice" => (alt = Len(tried) + 1 /\ pos = before)
  /\ Done => (IsOk(tried[Len(tried)]) /\ Gives(Len(tried), res))
  /\ Failed =>
       \/ tried[Len(tried)].st = "ConsumedErr"
       \/ /\ Len(tried) = NumAlternatives
          /\ \A i \in 1..Len(tried) : tried[i].st = "EmptyErr"
          /\ err = before
  /\ (tried # <<>> /\ tried[Len(tried)].st = "ConsumedErr") => (Failed /\ res = NoValue)

\* all seven alternatives were tried, and none matched
C10_Witness ==
  /\ Failed
  /\ Len(tried) = NumAlternatives
  /\ tried[NumAlternatives].st = "EmptyErr"
  /\ before > 1

=============================================================================
